---- MODULE Spec2Model ----
(***************************************************************************)
(* UrbanPulse dashboard (src/app.py): the synthetic series generator with  *)
(* its 60 second memo, the exponential trend forecaster, the scenario      *)
(* simulation, and the top-to-bottom script that calls them on each rerun. *)
(*                                                                         *)
(* Time is counted in seconds.  Measurements drawn by the random source    *)
(* are integers; products and quotients are exact rationals <<num, den>>.  *)
(***************************************************************************)
EXTENDS Integers, Sequences, FiniteSets, TLC

VARIABLES
    clock,              \* datetime.now(), in seconds
    cache,              \* st.cache_data store of generate_real_time_data, by arguments
    call,               \* the last call of generate_real_time_data: arguments, time, what it met and drew
    ret,                \* the table that call returned
    pc,                 \* position of the script within the current run
    calls,              \* the helper calls made so far in the current run, in order
    heap,               \* the DataFrame objects of the current run, by object id
    df_rt,              \* script variable df_rt: an object id (0: unbound)
    df_sim,             \* script variable df_sim: an object id (0: unbound)
    latest_traffic,     \* script variable latest_traffic
    df_pred_traffic,    \* script variable df_pred_traffic
    latest_pm25,        \* script variable latest_pm25
    df_pred_air,        \* script variable df_pred_air
    timing_adjustment,  \* script variable timing_adjustment
    green_zone_effect,  \* script variable green_zone_effect
    widgets,            \* the session's slider positions, and whether the user has moved one
    first_sim,          \* the first completed simulation of the session: base, parameters, output
    fc_args,            \* arguments of a direct call of generate_prediction_data
    fc_now,             \* the time of that call
    fc_ret              \* the table it returned

vars == <<clock, cache, call, ret, pc, calls, heap, df_rt, df_sim, latest_traffic,
          df_pred_traffic, latest_pm25, df_pred_air, timing_adjustment,
          green_zone_effect, widgets, first_sim, fc_args, fc_now, fc_ret>>

genVars == <<clock, cache, call, ret>>
scriptVars == <<pc, calls, heap, df_rt, df_sim, latest_traffic, df_pred_traffic,
                latest_pm25, df_pred_air, timing_adjustment, green_zone_effect>>
simVars == <<widgets, first_sim>>
fcVars == <<fc_args, fc_now, fc_ret>>

(***************************************************************************)
(* Bounds of the exploration.                                              *)
(***************************************************************************)
\* Rows of a generated series; stands in for the default num_points = 100.
num_points == 2
\* The clock advances in steps of TickSeconds up to MaxClock.
TickSeconds == 40
MaxClock == 80
\* The memo holds at most this many rows in all, over its argument tuples.
MaxCachedRows == 3
\* Forecast steps explored by direct calls; the script's default stands at DefaultSteps.
MaxSteps == 3

(***************************************************************************)
(* Program constants.                                                      *)
(***************************************************************************)
SecondsPerMinute == 60
CacheTTL == 60
interval_minutes == 5
TrafficLow == 20
TrafficHigh == 100
AirLow == 10
AirHigh == 80
ReferenceCycle == 60
TimingMin == 30
TimingMax == 120
TimingDefault == 60
GreenMin == 0
GreenMax == 50
GreenDefault == 10
SliderStep == 5
Percent == 100

\* Samples the normal random source may deliver: below, inside and above the clip range.
TrafficDraws == {15, 50, 110}
AirDraws == {5, 35, 90}

Counts == 1..num_points
Intervals == {1, interval_minutes}
Keys == Counts \X Intervals
DefaultKey == <<num_points, interval_minutes>>

ColTime == "Time"
ColTraffic == "Traffic Density (vehicles/min)"
ColPM25 == "PM2.5 (ug/m3)"
ColSimTraffic == "Simulated Traffic Density"
ColSimPM25 == "Simulated PM2.5"
ColPredicted == "Predicted Value"

NoTable == << >>
\* An unbound variable: a value no measurement and no time of a call takes.
NoValue == 0 - 1

(***************************************************************************)
(* Exact rational arithmetic: <<n, d>> with d > 0, in lowest terms.        *)
(***************************************************************************)
Abs(x) == IF x < 0 THEN -x ELSE x

RECURSIVE GCD(_, _)
GCD(a, b) == IF b = 0 THEN a ELSE GCD(b, a % b)

Rat(n, d) ==
    LET s == IF d < 0 THEN -1 ELSE 1
        g == GCD(Abs(n), Abs(d))
    IN  <<(s * n) \div g, (s * d) \div g>>

RMul(a, b) == Rat(a[1] * b[1], a[2] * b[2])
RSub(a, b) == Rat(a[1] * b[2] - b[1] * a[2], a[2] * b[2])
RScale(v, r) == Rat(v * r[1], r[2])

RECURSIVE RPow(_, _)
RPow(r, k) == IF k = 0 THEN <<1, 1>> ELSE RMul(r, RPow(r, k - 1))

(***************************************************************************)
(* generate_real_time_data                                                 *)
(***************************************************************************)
\* Variant: only the upper bound is applied.
ClipUpperOnly(x, lo, hi) == IF x > hi THEN hi ELSE x

Clip(x, lo, hi) == IF x < lo THEN lo ELSE IF x > hi THEN hi ELSE x

ClipAll(xs, lo, hi) == [i \in DOMAIN xs |-> Clip(xs[i], lo, hi)]

\* sorted(time_series)
Sorted(ts) == SortSeq(ts, LAMBDA a, b : a < b)

\* Variant: the list is left in the order it was built, newest first.
TimeSeriesUnsorted(now, n, interval) ==
    [j \in 1..n |-> now - SecondsPerMinute * interval * (j - 1)]

\* [now - timedelta(minutes=interval * i) for i in range(n)], then sorted
TimeSeries(now, n, interval) ==
    Sorted([j \in 1..n |-> now - SecondsPerMinute * interval * (j - 1)])

\* The body of generate_real_time_data on the samples td, aq drawn at time now.
GenerateBody(now, n, interval, td, aq) ==
    (ColTime :> TimeSeries(now, n, interval))
    @@ (ColTraffic :> ClipAll(td, TrafficLow, TrafficHigh))
    @@ (ColPM25 :> ClipAll(aq, AirLow, AirHigh))

NoEntry == [valid |-> FALSE, at |-> 0, df |-> NoTable]
\* found: creation time of the entry the call met under its arguments (NoValue: none);
\* td, aq: the samples the random source delivered to the call (none when memoized).
NoCall == [key |-> <<0, 0>>, at |-> NoValue, fresh |-> FALSE, found |-> NoValue,
           td |-> << >>, aq |-> << >>]

Found(e) == IF e.valid THEN e.at ELSE NoValue

\* Variant: an entry never expires.
LiveForever(e, now) == e.valid

\* st.cache_data(ttl=60): an entry is served while it is younger than the ttl.
Live(e, now) == e.valid /\ now - e.at < CacheTTL

CachedKeys == {k \in Keys : cache[k].valid}

RECURSIVE SumCounts(_)
SumCounts(ks) ==
    IF ks = {} THEN 0
    ELSE LET k == CHOOSE x \in ks : TRUE IN k[1] + SumCounts(ks \ {k})

CachedRows == SumCounts(CachedKeys)

\* One call generate_real_time_data(k[1], k[2]) through the memo.
CachedCall(k) ==
    IF Live(cache[k], clock)
    THEN /\ ret' = cache[k].df
         /\ call' = [key |-> k, at |-> clock, fresh |-> FALSE, found |-> Found(cache[k]),
                     td |-> << >>, aq |-> << >>]
         /\ cache' = cache
    ELSE \E td \in [1..k[1] -> TrafficDraws], aq \in [1..k[1] -> AirDraws] :
            /\ ret' = GenerateBody(clock, k[1], k[2], td, aq)
            /\ call' = [key |-> k, at |-> clock, fresh |-> TRUE, found |-> Found(cache[k]),
                        td |-> td, aq |-> aq]
            /\ cache' = [cache EXCEPT ![k] = [valid |-> TRUE, at |-> clock, df |-> ret']]

\* Time passes.
Tick ==
    /\ clock + TickSeconds <= MaxClock
    /\ clock' = clock + TickSeconds
    /\ UNCHANGED <<cache, call, ret>>
    /\ UNCHANGED scriptVars
    /\ UNCHANGED simVars
    /\ UNCHANGED fcVars

\* A direct call of generate_real_time_data with arbitrary valid arguments.
Generate ==
    /\ \E k \in Keys :
          /\ k \in CachedKeys \/ CachedRows + k[1] <= MaxCachedRows
          /\ CachedCall(k)
    /\ UNCHANGED clock
    /\ UNCHANGED scriptVars
    /\ UNCHANGED simVars
    /\ UNCHANGED fcVars

(***************************************************************************)
(* generate_prediction_data                                                *)
(***************************************************************************)
\* Default trend_factor = 1.05.
TrendDefault == Rat(105, 100)

\* Variant: range(steps), so the first timestamp is the call time itself.
FutureTimesFromNow(now, steps, interval) ==
    [i \in 1..steps |-> now + SecondsPerMinute * interval * (i - 1)]

\* [last_time + timedelta(minutes=interval * i) for i in range(1, steps + 1)]
FutureTimes(now, steps, interval) ==
    [i \in 1..steps |-> now + SecondsPerMinute * interval * i]

\* Variant: np.arange(steps), so the first value is the latest value itself.
PredictedValuesFromLatest(latest, steps, trend) ==
    [i \in 1..steps |-> RMul(latest, RPow(trend, i - 1))]

\* latest_value * (trend_factor ** np.arange(1, steps + 1))
PredictedValues(latest, steps, trend) ==
    [i \in 1..steps |-> RMul(latest, RPow(trend, i))]

generate_prediction_data(latest, steps, interval, trend, now) ==
    (ColTime :> FutureTimes(now, steps, interval))
    @@ (ColPredicted :> PredictedValues(latest, steps, trend))

(***************************************************************************)
(* The script: one run from top to bottom.                                 *)
(***************************************************************************)
\* Variant: series.iloc[0]
ILocFirst(xs) == xs[1]

\* series.iloc[-1]
ILocLast(xs) == xs[Len(xs)]

\* Variant: no copy, df_sim names the same object as df_rt.
SameObject(o) == o

\* df.copy(): a new object
Copy(o) == o + 1

\* df[col] = values
SetColumn(df, col, values) == (col :> values) @@ df

\* series * factor, elementwise
ScaleAll(xs, r) == [i \in DOMAIN xs |-> RScale(xs[i], r)]

\* Variant: timing_adjustment / 60
TrafficFactorInverted(timing) == Rat(timing, ReferenceCycle)

\* 60 / timing_adjustment
TrafficFactor(timing) == Rat(ReferenceCycle, timing)

\* Variant: green_zone_effect / 100, the reduction instead of what remains.
AirFactorReduction(green) == Rat(green, Percent)

\* Variant: the factor compounds on the one applied by the session's first run.
AirFactorCompounded(green) ==
    IF first_sim = NoTable
    THEN RSub(<<1, 1>>, Rat(green, Percent))
    ELSE RMul(RSub(<<1, 1>>, Rat(green, Percent)),
              RSub(<<1, 1>>, Rat(first_sim.green, Percent)))

\* 1 - green_zone_effect / 100
AirFactor(green) == RSub(<<1, 1>>, Rat(green, Percent))

TimingValues == {v \in TimingMin..TimingMax : (v - TimingMin) % SliderStep = 0}
GreenValues == {v \in GreenMin..GreenMax : (v - GreenMin) % SliderStep = 0}

\* Line 64: df_rt = generate_real_time_data()
ScriptGenerate ==
    /\ pc = "generate"
    /\ CachedCall(DefaultKey)
    /\ df_rt' = 1
    /\ heap' = [heap EXCEPT ![1] = ret']
    /\ calls' = Append(calls, "generate")
    /\ pc' = "forecast_traffic"
    /\ UNCHANGED <<clock, df_sim, latest_traffic, df_pred_traffic, latest_pm25,
                   df_pred_air, timing_adjustment, green_zone_effect>>
    /\ UNCHANGED simVars
    /\ UNCHANGED fcVars

\* Lines 87-88: the traffic forecast
ForecastTraffic ==
    /\ pc = "forecast_traffic"
    /\ latest_traffic' = ILocLast(heap[df_rt][ColTraffic])
    /\ df_pred_traffic' = generate_prediction_data(Rat(latest_traffic', 1), MaxSteps,
                                                   interval_minutes, TrendDefault, clock)
    /\ calls' = Append(calls, "forecast")
    /\ pc' = "forecast_air"
    /\ UNCHANGED genVars
    /\ UNCHANGED <<heap, df_rt, df_sim, latest_pm25, df_pred_air, timing_adjustment,
                   green_zone_effect>>
    /\ UNCHANGED simVars
    /\ UNCHANGED fcVars

\* Lines 96-97: the air-quality forecast
ForecastAir ==
    /\ pc = "forecast_air"
    /\ latest_pm25' = ILocLast(heap[df_rt][ColPM25])
    /\ df_pred_air' = generate_prediction_data(Rat(latest_pm25', 1), MaxSteps,
                                               interval_minutes, TrendDefault, clock)
    /\ calls' = Append(calls, "forecast")
    /\ pc' = "simulate_traffic"
    /\ UNCHANGED genVars
    /\ UNCHANGED <<heap, df_rt, df_sim, latest_traffic, df_pred_traffic,
                   timing_adjustment, green_zone_effect>>
    /\ UNCHANGED simVars
    /\ UNCHANGED fcVars

\* Lines 111-117: the slider delivers v; copy the base and add the simulated traffic column.
SimTrafficStep(v) ==
    /\ pc = "simulate_traffic"
    /\ timing_adjustment' = v
    /\ df_sim' = Copy(df_rt)
    /\ LET copied == [heap EXCEPT ![df_sim'] = heap[df_rt]]
       IN  heap' = [copied EXCEPT ![df_sim'] =
                       SetColumn(copied[df_sim'], ColSimTraffic,
                                 ScaleAll(copied[df_sim'][ColTraffic], TrafficFactor(v)))]
    /\ calls' = Append(calls, "simulate")
    /\ pc' = "simulate_air"
    /\ UNCHANGED genVars
    /\ UNCHANGED <<df_rt, latest_traffic, df_pred_traffic, latest_pm25, df_pred_air,
                   green_zone_effect>>
    /\ UNCHANGED fcVars

\* Lines 124-129: the slider delivers g; add the simulated PM2.5 column.
SimAirStep(g) ==
    /\ pc = "simulate_air"
    /\ green_zone_effect' = g
    /\ heap' = [heap EXCEPT ![df_sim] =
                   SetColumn(heap[df_sim], ColSimPM25,
                             ScaleAll(heap[df_sim][ColPM25], AirFactor(g)))]
    /\ pc' = "done"
    /\ UNCHANGED genVars
    /\ UNCHANGED <<calls, df_rt, df_sim, latest_traffic, df_pred_traffic, latest_pm25,
                   df_pred_air, timing_adjustment>>
    /\ UNCHANGED fcVars

SimulateTraffic ==
    /\ \E v \in TimingValues : SimTrafficStep(v)
    /\ UNCHANGED simVars

SimulateAir ==
    /\ \E g \in GreenValues : SimAirStep(g)
    /\ UNCHANGED simVars

InitGen ==
    /\ clock = 0
    /\ cache = [k \in Keys |-> NoEntry]
    /\ call = NoCall
    /\ ret = NoTable

InitScript ==
    /\ pc = "generate"
    /\ calls = << >>
    /\ heap = [o \in 1..2 |-> NoTable]
    /\ df_rt = 0
    /\ df_sim = 0
    /\ latest_traffic = NoValue
    /\ df_pred_traffic = NoTable
    /\ latest_pm25 = NoValue
    /\ df_pred_air = NoTable
    /\ timing_adjustment = NoValue
    /\ green_zone_effect = NoValue

InitSim ==
    /\ widgets = [timing |-> TimingDefault, green |-> GreenDefault, touched |-> FALSE]
    /\ first_sim = NoTable

InitFc ==
    /\ fc_args = NoTable
    /\ fc_now = NoValue
    /\ fc_ret = NoTable

Init == InitGen /\ InitScript /\ InitSim /\ InitFc

NextGen == Tick \/ Generate

SpecGen == Init /\ [][NextGen]_vars

\* Any interaction reruns the script from the top with a fresh namespace.
Rerun ==
    /\ pc = "done"
    /\ pc' = "generate"
    /\ calls' = << >>
    /\ heap' = [o \in 1..2 |-> NoTable]
    /\ df_rt' = 0
    /\ df_sim' = 0
    /\ latest_traffic' = NoValue
    /\ df_pred_traffic' = NoTable
    /\ latest_pm25' = NoValue
    /\ df_pred_air' = NoTable
    /\ timing_adjustment' = NoValue
    /\ green_zone_effect' = NoValue
    /\ UNCHANGED genVars
    /\ UNCHANGED simVars
    /\ UNCHANGED fcVars

Next ==
    \/ Tick
    \/ ScriptGenerate
    \/ ForecastTraffic
    \/ ForecastAir
    \/ SimulateTraffic
    \/ SimulateAir
    \/ Rerun

Spec == Init /\ [][Next]_vars

(***************************************************************************)
(* Direct calls of generate_prediction_data on arbitrary valid arguments.  *)
(***************************************************************************)
LatestValues == {Rat(50, 1), Rat(100, 1), Rat(1, 2)}
TrendValues == {Rat(105, 100), Rat(1, 2), Rat(1, 1), Rat(2, 1)}
ForecastArgs ==
    [latest : LatestValues, steps : 1..MaxSteps, interval : Intervals, trend : TrendValues]

InitForecast ==
    /\ InitGen
    /\ InitScript
    /\ InitSim
    /\ fc_args \in ForecastArgs
    /\ fc_now = NoValue
    /\ fc_ret = NoTable

Forecast ==
    /\ fc_now' = clock
    /\ fc_ret' = generate_prediction_data(fc_args.latest, fc_args.steps, fc_args.interval,
                                          fc_args.trend, clock)
    /\ UNCHANGED fc_args
    /\ UNCHANGED genVars
    /\ UNCHANGED scriptVars
    /\ UNCHANGED simVars

NextForecast == Tick \/ Forecast

SpecForecast == InitForecast /\ [][NextForecast]_vars

(***************************************************************************)
(* The simulation alone: one session over a fixed base series, rerun on    *)
(* every slider move.                                                      *)
(***************************************************************************)
BaseSeries ==
    {GenerateBody(0, num_points, interval_minutes, td, aq) :
        td \in [1..num_points -> TrafficDraws], aq \in [1..num_points -> AirDraws]}

InitSimulation ==
    /\ InitGen
    /\ InitSim
    /\ InitFc
    /\ pc = "simulate_traffic"
    /\ calls = << >>
    /\ \E base \in BaseSeries : heap = [o \in 1..2 |-> IF o = 1 THEN base ELSE NoTable]
    /\ df_rt = 1
    /\ df_sim = 0
    /\ latest_traffic = NoValue
    /\ df_pred_traffic = NoTable
    /\ latest_pm25 = NoValue
    /\ df_pred_air = NoTable
    /\ timing_adjustment = NoValue
    /\ green_zone_effect = NoValue

\* st.slider returns the session's position of the first slider.
SessionSimulateTraffic ==
    /\ SimTrafficStep(widgets.timing)
    /\ UNCHANGED simVars

\* st.slider returns the session's position of the second slider; the run completes.
SessionSimulateAir ==
    /\ SimAirStep(widgets.green)
    /\ first_sim' = IF first_sim = NoTable
                    THEN [base |-> heap[df_rt], timing |-> timing_adjustment,
                          green |-> widgets.green, out |-> heap'[df_sim]]
                    ELSE first_sim
    /\ UNCHANGED widgets

\* The rerun a slider move triggers, up to the simulation tab, over the same base.
RerunSimulation ==
    /\ pc = "done"
    /\ pc' = "simulate_traffic"
    /\ calls' = << >>
    /\ heap' = [heap EXCEPT ![2] = NoTable]
    /\ df_sim' = 0
    /\ timing_adjustment' = NoValue
    /\ green_zone_effect' = NoValue
    /\ UNCHANGED <<df_rt, latest_traffic, df_pred_traffic, latest_pm25, df_pred_air>>
    /\ UNCHANGED <<genVars, fcVars, first_sim>>

MoveTimingSlider ==
    /\ \E v \in TimingValues \ {widgets.timing} : widgets' = [widgets EXCEPT !.timing = v, !.touched = TRUE]
    /\ RerunSimulation

MoveGreenSlider ==
    /\ \E g \in GreenValues \ {widgets.green} : widgets' = [widgets EXCEPT !.green = g, !.touched = TRUE]
    /\ RerunSimulation

NextSimulation ==
    \/ SessionSimulateTraffic
    \/ SessionSimulateAir
    \/ MoveTimingSlider
    \/ MoveGreenSlider

SpecSim == InitSimulation /\ [][NextSimulation]_vars

(***************************************************************************)
(* Properties of generate_real_time_data (SpecGen).                        *)
(***************************************************************************)
Called == call # NoCall

\* The timestamps T - (n-1)*interval, ..., T - interval, T of a series of n rows.
Stepped(ts, n, interval, T) ==
    /\ Len(ts) = n
    /\ \A i \in 1..n : ts[i] = T - SecondsPerMinute * interval * (n - i)

\* C1 as stated: every call made at time T returns count rows whose timestamps ascend in
\* steps of intervalMinutes and end at T, the time of the call.
C1_EndsAtCallTime ==
    Called => Stepped(ret[ColTime], call.key[1], call.key[2], call.at)

\* C1 amended: a call that generates ends its timestamps at the time of the call; a call
\* served from the memo returns count rows stepped the same way that end at the time the
\* memoized series was generated, less than 60 seconds before the call.
C1_EndsAtGenerationTime ==
    Called =>
        LET T0 == IF call.fresh THEN call.at ELSE cache[call.key].at
        IN  /\ Stepped(ret[ColTime], call.key[1], call.key[2], T0)
            /\ Len(ret[ColTraffic]) = call.key[1]
            /\ Len(ret[ColPM25]) = call.key[1]
            /\ \A i \in 1..(call.key[1] - 1) : ret[ColTime][i] < ret[ColTime][i + 1]
            /\ T0 <= call.at
            /\ call.at - T0 < CacheTTL

\* A memoized series of two rows or more is returned later than it was generated.
C1_Witness ==
    /\ Called
    /\ ~call.fresh
    /\ call.key[1] >= 2
    /\ cache[call.key].at < call.at

\* C2: every traffic value of a returned series lies in [20,100] and every air-quality
\* value in [10,80]; a sample below the range became the lower bound, a sample above it
\* the upper bound, and a sample inside it is kept.
C2_Clamped ==
    Called =>
        /\ \A i \in DOMAIN ret[ColTraffic] :
              ret[ColTraffic][i] >= TrafficLow /\ ret[ColTraffic][i] <= TrafficHigh
        /\ \A i \in DOMAIN ret[ColPM25] :
              ret[ColPM25][i] >= AirLow /\ ret[ColPM25][i] <= AirHigh
        /\ call.fresh =>
              /\ \A i \in DOMAIN call.td :
                    /\ call.td[i] < TrafficLow => ret[ColTraffic][i] = TrafficLow
                    /\ call.td[i] > TrafficHigh => ret[ColTraffic][i] = TrafficHigh
                    /\ (call.td[i] >= TrafficLow /\ call.td[i] <= TrafficHigh)
                          => ret[ColTraffic][i] = call.td[i]
              /\ \A i \in DOMAIN call.aq :
                    /\ call.aq[i] < AirLow => ret[ColPM25][i] = AirLow
                    /\ call.aq[i] > AirHigh => ret[ColPM25][i] = AirHigh
                    /\ (call.aq[i] >= AirLow /\ call.aq[i] <= AirHigh)
                          => ret[ColPM25][i] = call.aq[i]

\* A generation whose samples fall below, inside and above the ranges.
C2_Witness ==
    /\ Called
    /\ call.fresh
    /\ \E i, j \in DOMAIN call.td : call.td[i] < TrafficLow /\ call.td[j] > TrafficHigh
    /\ \E i, j \in DOMAIN call.aq : call.aq[i] > AirHigh /\ call.aq[j] \in AirLow..AirHigh

\* A step in which generate_real_time_data is called with arguments k.
CallStep(k) == call' # call /\ call'.key = k

\* C8: a call within 60 seconds of the generation of the entry under its arguments
\* returns that entry and leaves the memo as it is; a call that meets no entry, or one
\* older than 60 seconds, generates a series stepped back from the time of the call from
\* new samples and memoizes it; the entries under other arguments are untouched, and the
\* memo changes in no other way.
C8_Step ==
    /\ \A k \in Keys :
          CallStep(k) =>
             /\ call'.at = clock
             /\ \A j \in Keys \ {k} : cache'[j] = cache[j]
             /\ (cache[k].valid /\ clock - cache[k].at < CacheTTL) =>
                   /\ ~call'.fresh
                   /\ ret' = cache[k].df
                   /\ cache'[k] = cache[k]
             /\ (~cache[k].valid \/ clock - cache[k].at > CacheTTL) =>
                   /\ call'.fresh
                   /\ Stepped(ret'[ColTime], k[1], k[2], clock)
                   /\ call'.td \in [1..k[1] -> TrafficDraws]
                   /\ call'.aq \in [1..k[1] -> AirDraws]
                   /\ cache'[k] = [valid |-> TRUE, at |-> clock, df |-> ret']
    /\ (cache' # cache \/ ret' # ret) => call' # call

C8_Memo == [][C8_Step]_vars

\* A call regenerates an expired entry while an entry under other arguments is memoized.
C8_Witness ==
    /\ Called
    /\ call.fresh
    /\ call.found # NoValue
    /\ \E j \in Keys \ {call.key} : cache[j].valid /\ cache[j].df # ret

(***************************************************************************)
(* Properties of generate_prediction_data (SpecForecast).                  *)
(***************************************************************************)
Forecasted == fc_ret # NoTable

\* a = b * c for rationals a, b, c in lowest terms.
IsProduct(a, b, c) == a = Rat(b[1] * c[1], b[2] * c[2])

\* The rational a equals the decimal m / 10^5.
IsDecimal(a, m) == a = Rat(m, 100000)

\* C3: the forecast has steps rows; its first value is latestValue * growthFactor and
\* every next value is growthFactor times the one before, whatever its size; from 50
\* with growth 1.05 the values are 52.5, 55.125, 57.88125.
C3_Exponential ==
    Forecasted =>
        LET vs == fc_ret[ColPredicted]
        IN  /\ Len(vs) = fc_args.steps
            /\ IsProduct(vs[1], fc_args.latest, fc_args.trend)
            /\ \A i \in 1..(fc_args.steps - 1) : IsProduct(vs[i + 1], vs[i], fc_args.trend)
            /\ (fc_args.latest = <<50, 1>> /\ fc_args.trend = <<21, 20>>) =>
                  /\ IsDecimal(vs[1], 5250000)
                  /\ fc_args.steps >= 2 => IsDecimal(vs[2], 5512500)
                  /\ fc_args.steps >= 3 => IsDecimal(vs[3], 5788125)

\* A three-step forecast from 100 with growth 1.05: every value is above the upper
\* historical bound.
C3_Witness ==
    /\ Forecasted
    /\ fc_args.latest = <<100, 1>>
    /\ fc_args.trend = <<21, 20>>
    /\ fc_args.steps = 3
    /\ \A i \in 1..3 : fc_ret[ColPredicted][i][1] > TrafficHigh * fc_ret[ColPredicted][i][2]

\* C4: the forecast's timestamps are now + intervalMinutes * k for k = 1..steps, each
\* later than the one before and all later than the time of the call.
C4_FutureTimes ==
    Forecasted =>
        LET ts == fc_ret[ColTime]
        IN  /\ Len(ts) = fc_args.steps
            /\ \A i \in 1..fc_args.steps :
                  /\ ts[i] = fc_now + SecondsPerMinute * fc_args.interval * i
                  /\ ts[i] > fc_now
            /\ \A i \in 1..(fc_args.steps - 1) : ts[i] < ts[i + 1]

\* A forecast of three steps made after the clock has advanced.
C4_Witness ==
    /\ Forecasted
    /\ fc_args.steps = 3
    /\ fc_now > 0

(***************************************************************************)
(* Properties of the simulation (SpecSim).                                 *)
(***************************************************************************)
TrafficSimulated == pc \in {"simulate_air", "done"}
AirSimulated == pc = "done"

\* a <= b for rationals with positive denominators.
RLeq(a, b) == a[1] * b[2] <= b[1] * a[2]

\* C5: every simulated traffic value is the base value times 60 / signalCycleSeconds;
\* at 60 it is the base value, at 30 twice the base value; and a shorter cycle never
\* gives a smaller value than a longer one.
C5_TrafficScaled ==
    TrafficSimulated =>
        LET base == heap[df_rt][ColTraffic]
            sim == heap[df_sim][ColSimTraffic]
        IN  /\ timing_adjustment \in TimingValues
            /\ DOMAIN sim = DOMAIN base
            /\ \A i \in DOMAIN base :
                  /\ sim[i][1] * timing_adjustment = base[i] * ReferenceCycle * sim[i][2]
                  /\ timing_adjustment = 60 => sim[i] = <<base[i], 1>>
                  /\ timing_adjustment = 30 => sim[i] = <<2 * base[i], 1>>
                  /\ \A c \in TimingValues :
                        LET other == ScaleAll(base, TrafficFactor(c))[i]
                        IN  /\ c <= timing_adjustment => RLeq(sim[i], other)
                            /\ c >= timing_adjustment => RLeq(other, sim[i])
                  /\ (first_sim # NoTable /\ first_sim.timing >= timing_adjustment)
                        => RLeq(first_sim.out[ColSimTraffic][i], sim[i])

\* A run at the shortest cycle, after a first run at the default one.
C5_Witness ==
    /\ TrafficSimulated
    /\ timing_adjustment = TimingMin
    /\ first_sim # NoTable

\* C6: every simulated air-quality value is the base value times
\* (1 - greenZoneEffectivenessPercent / 100); at 0 it is the base value, at 50 half of it.
C6_AirScaled ==
    AirSimulated =>
        LET base == heap[df_rt][ColPM25]
            sim == heap[df_sim][ColSimPM25]
        IN  /\ green_zone_effect \in GreenValues
            /\ DOMAIN sim = DOMAIN base
            /\ \A i \in DOMAIN base :
                  /\ sim[i][1] * 100 = base[i] * (100 - green_zone_effect) * sim[i][2]
                  /\ green_zone_effect = 0 => sim[i] = <<base[i], 1>>
                  /\ green_zone_effect = 50 => 2 * sim[i][1] = base[i] * sim[i][2]

\* A run at 50 percent.
C6_Witness ==
    /\ AirSimulated
    /\ green_zone_effect = GreenMax

BaseColumns == {ColTime, ColTraffic, ColPM25}

\* C7: through the simulation df_rt is the table generate returned, with its three
\* columns, and df_sim is another table with the same timestamps and base values plus
\* the derived columns: one after the first step, exactly two after the second.
C7_BaseUntouched ==
    TrafficSimulated =>
        /\ heap[df_rt] = ret
        /\ DOMAIN heap[df_rt] = BaseColumns
        /\ df_sim # df_rt
        /\ \A c \in BaseColumns : heap[df_sim][c] = ret[c]
        /\ Len(heap[df_sim][ColSimTraffic]) = Len(ret[ColTime])
        /\ pc = "simulate_air" => DOMAIN heap[df_sim] = BaseColumns \cup {ColSimTraffic}
        /\ pc = "done" =>
              /\ DOMAIN heap[df_sim] = BaseColumns \cup {ColSimTraffic, ColSimPM25}
              /\ Len(heap[df_sim][ColSimPM25]) = Len(ret[ColTime])

\* A completed simulation whose derived values differ from the base values.
C7_Witness ==
    /\ pc = "done"
    /\ timing_adjustment # ReferenceCycle
    /\ green_zone_effect # 0

\* Row i of series df is its chronologically newest row.
Newest(df, i) == \A j \in DOMAIN df[ColTime] : df[ColTime][j] <= df[ColTime][i]

IsPrefix(s, t) == Len(s) <= Len(t) /\ \A i \in 1..Len(s) : s[i] = t[i]

\* C10: a run calls generate once, then forecast twice, then the simulation; df_rt is
\* the series that call of generate returned, fresh or memoized; each forecast is seeded
\* by the measurement of that series' newest row, which is its last row; and the
\* simulation is derived from the same series.
C10_Pipeline ==
    /\ IsPrefix(calls, <<"generate", "forecast", "forecast", "simulate">>)
    /\ df_rt # 0 =>
          /\ calls[1] = "generate"
          /\ call.key = DefaultKey
          /\ heap[df_rt] = ret
          /\ ret = cache[DefaultKey].df
    /\ latest_traffic # NoValue =>
          /\ df_rt # 0
          /\ Newest(ret, Len(ret[ColTime]))
          /\ \E i \in DOMAIN ret[ColTime] : Newest(ret, i) /\ latest_traffic = ret[ColTraffic][i]
          /\ IsProduct(df_pred_traffic[ColPredicted][1], <<latest_traffic, 1>>, <<105, 100>>)
    /\ latest_pm25 # NoValue =>
          /\ latest_traffic # NoValue
          /\ \E i \in DOMAIN ret[ColTime] : Newest(ret, i) /\ latest_pm25 = ret[ColPM25][i]
          /\ IsProduct(df_pred_air[ColPredicted][1], <<latest_pm25, 1>>, <<105, 100>>)
    /\ df_sim # 0 =>
          /\ latest_pm25 # NoValue
          /\ \A c \in BaseColumns : heap[df_sim][c] = ret[c]

\* A completed run over a memoized series whose newest row differs from its oldest.
C10_Witness ==
    /\ pc = "done"
    /\ ~call.fresh
    /\ ret[ColTraffic][1] # ret[ColTraffic][Len(ret[ColTraffic])]
    /\ ret[ColPM25][1] # ret[ColPM25][Len(ret[ColPM25])]

====
